---- MODULE Spec2Model ----
(***************************************************************************)
(* Model of src/tracker.py: the StockPortfolioTracker session (login,      *)
(* add_stock, remove_stock, portfolio_summary, logout), the price source   *)
(* StockDataAPI and the MySQL ledger store MySQLPortfolioDB.               *)
(*                                                                         *)
(* Python floats are modelled by exact rationals <<numerator, denominator>>*)
(* (the specification states its numeric properties "within floating-point *)
(* tolerance"); the conversions the code performs on them are modelled as   *)
(* what they do: DECIMAL(15,4) columns round to four decimals, the report's *)
(* ":.2f" formats round to two.                                            *)
(***************************************************************************)
EXTENDS Integers, Sequences, FiniteSets, TLC

----------------------------------------------------------------------------
(* Bounds of the model *)

\* add_stock / remove_stock calls explored in one behaviour
MaxOps == 2

----------------------------------------------------------------------------
(* Numbers *)

Abs(n) == IF n < 0 THEN -n ELSE n

RECURSIVE GCD(_, _)
GCD(a, b) == IF b = 0 THEN a ELSE GCD(b, a % b)

\* the rational n/d in lowest terms with a positive denominator
Norm(n, d) ==
    LET g == GCD(Abs(n), Abs(d))
        s == IF d < 0 THEN -1 ELSE 1
    IN  <<(s * n) \div g, (s * d) \div g>>

R(n) == <<n, 1>>
Zero == R(0)

RAdd(a, b) == Norm(a[1] * b[2] + b[1] * a[2], a[2] * b[2])
RSub(a, b) == Norm(a[1] * b[2] - b[1] * a[2], a[2] * b[2])
RMul(a, b) == Norm(a[1] * b[1], a[2] * b[2])
RDiv(a, b) == Norm(a[1] * b[2], a[2] * b[1])
RLt(a, b)  == a[1] * b[2] < b[1] * a[2]
RGe(a, b)  == ~RLt(a, b)

\* x rounded to a multiple of 1/scale, ties away from zero (MySQL DECIMAL)
RoundHalfUp(x, scale) ==
    LET q == (2 * Abs(x[1]) * scale + x[2]) \div (2 * x[2])
    IN  Norm(IF x[1] < 0 THEN -q ELSE q, scale)

\* x rounded to a multiple of 1/scale, ties to even (Python format)
RoundHalfEven(x, scale) ==
    LET m  == Abs(x[1]) * scale
        fl == m \div x[2]
        r2 == 2 * (m % x[2])
        q  == IF r2 > x[2] \/ (r2 = x[2] /\ fl % 2 = 1) THEN fl + 1 ELSE fl
    IN  Norm(IF x[1] < 0 THEN -q ELSE q, scale)

\* the scale of the DECIMAL(15, 4) columns shares and purchase_price
DecimalScale == 10000
ToDecimal(x) == RoundHalfUp(x, DecimalScale)

\* the scale of the report's ":.2f" formats
FormatScale == 100
Fmt2(x) == RoundHalfEven(x, FormatScale)

----------------------------------------------------------------------------
(* Inputs *)

None == <<>>

\* the registered users (ids of the users table)
Users == {1}

SymbolInputs == {"aapl", "MSFT"}
ShareInputs  == {"abc", "-1", "0", "1", "2"}
PriceInputs  == {"abc", "0", "2"}
DateInputs   == {"2024-01-01", "2024-2-1", "01/02/2024"}
\* share counts passed to remove_stock (None: the argument is omitted)
CountInputs  == {None, R(-1), R(1), R(2)}
\* what a price lookup returns (None: the lookup failed)
QuoteResults == {None, R(1)}

\* str.upper()
Upper(s) == IF s = "aapl" THEN "AAPL" ELSE s

\* float(text) returns (it raises ValueError on any other text)
FloatParses(text) == text \in {"-1", "0", "1", "2"}

\* float(text)
Float(text) ==
    CASE text = "-1" -> R(-1)
      [] text = "0"  -> R(0)
      [] text = "1"  -> R(1)
      [] text = "2"  -> R(2)

\* datetime.strptime(text, "%Y-%m-%d") returns (it raises ValueError
\* otherwise); %m and %d accept one digit
DateParses(text) == text \in {"2024-01-01", "2024-2-1"}

\* a date text as the DATE column returns it: strftime('%Y-%m-%d')
SqlDate(text) == IF text = "2024-2-1" THEN "2024-02-01" ELSE text

----------------------------------------------------------------------------
(* The portfolio: a dict, kept as its items in insertion order *)

\* symbol in self.portfolio
Contains(p, symbol) == \E k \in 1..Len(p) : p[k].symbol = symbol

IndexOf(p, symbol) == CHOOSE k \in 1..Len(p) : p[k].symbol = symbol

\* self.portfolio[symbol]
Get(p, symbol) == p[IndexOf(p, symbol)]

\* del self.portfolio[symbol]
Del(p, symbol) == SelectSeq(p, LAMBDA item : item.symbol # symbol)

\* self.portfolio[symbol] = {...} for a symbol that is not a key
Insert(p, symbol, shares, purchase_price, purchase_date) ==
    Append(p, [symbol |-> symbol, shares |-> shares,
               purchase_price |-> purchase_price,
               purchase_date |-> purchase_date])

\* Merge with the two prices averaged without their share weights
Merge_unweighted(p, symbol, shares, purchase_price, purchase_date) ==
    LET old == Get(p, symbol)
    IN  [p EXCEPT ![IndexOf(p, symbol)] =
            [old EXCEPT !.purchase_price =
                            RDiv(RAdd(old.purchase_price, purchase_price),
                                 R(2)),
                        !.shares = RAdd(old.shares, shares)]]

\* Merge with the shares added and purchase_price left as it was
Merge_keeps_cost(p, symbol, shares, purchase_price, purchase_date) ==
    [p EXCEPT ![IndexOf(p, symbol)].shares = RAdd(@, shares)]

\* Merge that also stamps the position with the date of the new buy
Merge_restamps(p, symbol, shares, purchase_price, purchase_date) ==
    LET old          == Get(p, symbol)
        total_shares == RAdd(old.shares, shares)
        total_cost   == RAdd(RMul(old.shares, old.purchase_price),
                             RMul(shares, purchase_price))
    IN  [p EXCEPT ![IndexOf(p, symbol)] =
            [old EXCEPT !.purchase_price = RDiv(total_cost, total_shares),
                        !.shares = total_shares,
                        !.purchase_date = purchase_date]]

\* the weighted-average update of an existing position; the branch does not
\* use purchase_date
Merge(p, symbol, shares, purchase_price, purchase_date) ==
    LET old          == Get(p, symbol)
        total_shares == RAdd(old.shares, shares)
        total_cost   == RAdd(RMul(old.shares, old.purchase_price),
                             RMul(shares, purchase_price))
    IN  [p EXCEPT ![IndexOf(p, symbol)] =
            [old EXCEPT !.purchase_price = RDiv(total_cost, total_shares),
                        !.shares = total_shares]]

\* self.portfolio[symbol]['shares'] -= shares
Reduce(p, symbol, shares) ==
    [p EXCEPT ![IndexOf(p, symbol)].shares = RSub(@, shares)]

\* IsFullDisposal with > for >=
IsFullDisposal_strict(held, shares) == shares = None \/ RLt(held, shares)

\* the test of remove_stock that selects the full disposal
IsFullDisposal(held, shares) == shares = None \/ RGe(shares, held)

\* the try block of add_stock: all three conversions succeed
InputParses(shares_in, price_in, date_in) ==
    /\ FloatParses(shares_in)
    /\ FloatParses(price_in)
    /\ DateParses(date_in)

----------------------------------------------------------------------------
(* The ledger store *)

\* the rows INSERTed for a portfolio: DECIMAL(15,4) and DATE columns
Rows(p) ==
    {[symbol         |-> p[k].symbol,
      shares         |-> ToDecimal(p[k].shares),
      purchase_price |-> ToDecimal(p[k].purchase_price),
      purchase_date  |-> SqlDate(p[k].purchase_date)] : k \in 1..Len(p)}

\* the orders in which a SELECT without ORDER BY can return a set of rows
Orderings(S) ==
    {f \in [1..Cardinality(S) -> S] :
        \A a, b \in 1..Cardinality(S) : a # b => f[a] # f[b]}

----------------------------------------------------------------------------
(* State *)

VARIABLES
    pc,                  \* where main() is: "auth", "menu", "summary",
                         \* "crashed" (uncaught exception), "exited"
    current_user_id,     \* 0 is None
    portfolio,           \* self.portfolio
    use_alpha_vantage,   \* StockDataAPI.use_alpha_vantage
    db,                  \* the portfolio table: user id -> set of rows
    i,                   \* portfolio_summary: index of the next position
    report,              \* portfolio_summary: the rows appended so far
    total_investment,    \* portfolio_summary
    total_current_value, \* portfolio_summary
    total_gain_loss_pct, \* portfolio_summary: the printed summary percentage
    quotes,              \* what get_current_price returned, per position
    ops,                 \* number of add_stock / remove_stock calls so far
    last,                \* the last call: its symbol, what it did, whether
                         \* it saved, the date passed to a successful buy
    lots,                \* per symbol: the buys merged since the position
                         \* was created by add_stock in this session
    ever                 \* per user and symbol: <<sum of s*p, sum of s>>
                         \* over all buys ever merged, those behind the
                         \* loaded positions included

vars == <<pc, current_user_id, portfolio, use_alpha_vantage, db, i, report, total_investment,
          total_current_value, total_gain_loss_pct, quotes, ops, last,
          lots, ever>>

Symbols == {Upper(s) : s \in SymbolInputs}

NoLots == [symbol \in Symbols |-> [buys |-> <<>>, clean |-> FALSE]]

Call(op, symbol, outcome, saved) ==
    [op |-> op, symbol |-> symbol, outcome |-> outcome, saved |-> saved,
     date |-> ""]

NoCall == Call("none", "", "", "none")

\* a position bought on 2024-01-01
Position(symbol, shares, purchase_price) ==
    [symbol |-> symbol, shares |-> shares,
     purchase_price |-> purchase_price, purchase_date |-> "2024-01-01"]

\* what earlier runs of the program left in the portfolio table: nothing,
\* or the positions of one buy of each symbol
StoredPortfolios ==
    {<<>>, <<Position("AAPL", R(2), R(2)), Position("MSFT", R(1), Zero)>>}

\* the buys behind a loaded portfolio: one buy per position
EverBought(p) ==
    [symbol \in Symbols |->
        IF Contains(p, symbol)
        THEN <<RMul(Get(p, symbol).shares, Get(p, symbol).purchase_price),
               Get(p, symbol).shares>>
        ELSE <<Zero, Zero>>]

Init ==
    /\ pc = "auth"
    /\ current_user_id = 0
    /\ portfolio = <<>>
    /\ use_alpha_vantage = FALSE
    /\ \E stored \in StoredPortfolios : db = [u \in Users |-> Rows(stored)]
    /\ ever = [u \in Users |-> EverBought(<<>>)]
    /\ i = 0
    /\ report = <<>>
    /\ total_investment = Zero
    /\ total_current_value = Zero
    /\ total_gain_loss_pct = None
    /\ quotes = <<>>
    /\ ops = 0
    /\ last = NoCall
    /\ lots = NoLots

----------------------------------------------------------------------------
(* Session: main(), login, logout *)

ClearSummary ==
    /\ i' = 0
    /\ report' = <<>>
    /\ total_investment' = Zero
    /\ total_current_value' = Zero
    /\ total_gain_loss_pct' = None
    /\ quotes' = <<>>

\* load_portfolio: the rows of the user in some order, or {} on an error
LoadResults(user_id) == Orderings(db[user_id]) \cup {<<>>}

\* login(): authenticate_user returns None (wrong credentials, no
\* connection) or the user's id, and then the portfolio is loaded
login(user_id) ==
    /\ pc = "auth"
    /\ \/ /\ last' = Call("login", "", "invalid", "none")
          /\ UNCHANGED <<pc, current_user_id, portfolio>>
       \/ /\ current_user_id' = user_id
          /\ portfolio' \in LoadResults(user_id)
          /\ pc' = "menu"
          /\ last' = Call("login", "", "ok", "none")
    /\ lots' = NoLots
    /\ ever' = [ever EXCEPT ![user_id] = EverBought(portfolio')]
    /\ ClearSummary
    /\ UNCHANGED <<use_alpha_vantage, db, ops>>

\* choice 3 of the authentication loop
quit ==
    /\ pc = "auth"
    /\ pc' = "exited"
    /\ last' = Call("quit", "", "", "none")
    /\ ClearSummary
    /\ UNCHANGED <<current_user_id, portfolio, use_alpha_vantage, db, ops, lots, ever>>

\* logout(), after which main() leaves its loop and returns
logout ==
    /\ pc = "menu"
    /\ current_user_id' = 0
    /\ portfolio' = <<>>
    /\ pc' = "exited"
    /\ last' = Call("logout", "", "", "none")
    /\ lots' = NoLots
    /\ ClearSummary
    /\ UNCHANGED <<use_alpha_vantage, db, ops, ever>>

\* StockDataAPI.toggle_api
toggle_api ==
    /\ pc = "menu"
    /\ use_alpha_vantage' = ~use_alpha_vantage
    /\ last' = Call("toggle_api", "", "", "none")
    /\ ClearSummary
    /\ UNCHANGED <<pc, current_user_id, portfolio, db,
                   ops, lots, ever>>

----------------------------------------------------------------------------
(* The ledger: add_stock, remove_stock *)

\* MySQLPortfolioDB.save_portfolio: DELETE the user's rows, INSERT the
\* portfolio's, commit; on an error nothing is committed
save_portfolio(user_id, p, ok) ==
    db' = IF ok THEN [db EXCEPT ![user_id] = Rows(p)] ELSE db

SaveOutcome(ok) == IF ok THEN "ok" ELSE "failed"

Bought(symbol, shares, price) ==
    [ever EXCEPT ![current_user_id][symbol] =
        <<RAdd(@[1], RMul(shares, price)), RAdd(@[2], shares)>>]

\* the ValueError handler of add_stock
add_stock_invalid(symbol_in, shares_in, price_in, date_in) ==
    /\ ~InputParses(shares_in, price_in, date_in)
    /\ last' = Call("add_stock", Upper(symbol_in), "invalid", "none")
    /\ UNCHANGED <<pc, portfolio, db, lots, ever>>

\* the branch of add_stock for a symbol already in the portfolio; the
\* division by total_shares raises ZeroDivisionError, which nothing catches
add_stock_update(symbol_in, shares_in, price_in, date_in) ==
    LET symbol == Upper(symbol_in)
        shares == Float(shares_in)
        price  == Float(price_in)
    IN  /\ InputParses(shares_in, price_in, date_in)
        /\ Contains(portfolio, symbol)
        /\ IF RAdd(Get(portfolio, symbol).shares, shares) = Zero
           THEN /\ pc' = "crashed"
                /\ last' = Call("add_stock", symbol, "ZeroDivisionError",
                                "none")
                /\ UNCHANGED <<portfolio, db, lots, ever>>
           ELSE /\ portfolio' = Merge(portfolio, symbol, shares, price, date_in)
                /\ \E ok \in BOOLEAN :
                      /\ save_portfolio(current_user_id, portfolio', ok)
                      /\ last' = [Call("add_stock", symbol, "updated",
                                       SaveOutcome(ok))
                                    EXCEPT !.date = date_in]
                /\ lots' = [lots EXCEPT ![symbol].buys =
                                Append(@, <<shares, price>>)]
                /\ ever' = Bought(symbol, shares, price)
                /\ UNCHANGED pc

\* the branch of add_stock for a symbol not in the portfolio
add_stock_new(symbol_in, shares_in, price_in, date_in) ==
    LET symbol == Upper(symbol_in)
        shares == Float(shares_in)
        price  == Float(price_in)
    IN  /\ InputParses(shares_in, price_in, date_in)
        /\ ~Contains(portfolio, symbol)
        /\ portfolio' = Insert(portfolio, symbol, shares, price, date_in)
        /\ \E ok \in BOOLEAN :
              /\ save_portfolio(current_user_id, portfolio', ok)
              /\ last' = [Call("add_stock", symbol, "added", SaveOutcome(ok))
                            EXCEPT !.date = date_in]
        /\ lots' = [lots EXCEPT ![symbol] =
                        [buys |-> << <<shares, price>> >>, clean |-> TRUE]]
        /\ ever' = Bought(symbol, shares, price)
        /\ UNCHANGED pc

add_stock(symbol_in, shares_in, price_in, date_in) ==
    /\ pc = "menu"
    /\ ops < MaxOps
    /\ ops' = ops + 1
    /\ \/ add_stock_invalid(symbol_in, shares_in, price_in, date_in)
       \/ add_stock_update(symbol_in, shares_in, price_in, date_in)
       \/ add_stock_new(symbol_in, shares_in, price_in, date_in)
    /\ ClearSummary
    /\ UNCHANGED <<current_user_id, use_alpha_vantage>>

\* remove_stock_not_held without its return: the save at the end runs
remove_stock_not_held_saves(symbol_in, shares) ==
    /\ ~Contains(portfolio, Upper(symbol_in))
    /\ \E ok \in BOOLEAN :
          /\ save_portfolio(current_user_id, portfolio, ok)
          /\ last' = Call("remove_stock", Upper(symbol_in),
                          "not in portfolio", SaveOutcome(ok))
    /\ UNCHANGED <<portfolio, lots>>

\* the early return of remove_stock
remove_stock_not_held(symbol_in, shares) ==
    /\ ~Contains(portfolio, Upper(symbol_in))
    /\ last' = Call("remove_stock", Upper(symbol_in), "not in portfolio",
                    "none")
    /\ UNCHANGED <<portfolio, db, lots>>

\* the two branches of remove_stock for a held symbol
remove_stock_held(symbol_in, shares) ==
    LET symbol == Upper(symbol_in)
        full   == IsFullDisposal(Get(portfolio, symbol).shares, shares)
    IN  /\ Contains(portfolio, symbol)
        /\ portfolio' = IF full THEN Del(portfolio, symbol)
                                ELSE Reduce(portfolio, symbol, shares)
        /\ \E ok \in BOOLEAN :
              /\ save_portfolio(current_user_id, portfolio', ok)
              /\ last' = Call("remove_stock", symbol,
                              IF full THEN "removed all" ELSE "removed",
                              SaveOutcome(ok))
        /\ lots' = [lots EXCEPT ![symbol] =
                        IF full THEN [buys |-> <<>>, clean |-> FALSE]
                                ELSE [@ EXCEPT !.clean = FALSE]]

remove_stock(symbol_in, shares) ==
    /\ pc = "menu"
    /\ ops < MaxOps
    /\ ops' = ops + 1
    /\ \/ remove_stock_not_held(symbol_in, shares)
       \/ remove_stock_held(symbol_in, shares)
    /\ ClearSummary
    /\ UNCHANGED <<pc, current_user_id, use_alpha_vantage, ever>>

----------------------------------------------------------------------------
(* The valuation: portfolio_summary *)

\* StockDataAPI.get_current_price: either backend returns a price or None
\* (no trading data, no API key, a provider or connection error)
GetCurrentPriceResults == QuoteResults

Num(x) == [kind |-> "num", value |-> x]

\* (gain_loss / investment) * 100 where the quotient exists; on a zero
\* investment, what numpy.float64 division gives (the Yahoo backend's
\* prices are numpy.float64): inf, -inf or nan
GainLossPct(gain_loss, investment) ==
    IF investment # Zero
    THEN Num(RMul(RDiv(gain_loss, investment), R(100)))
    ELSE [kind  |-> IF RLt(Zero, gain_loss) THEN "inf"
                    ELSE IF RLt(gain_loss, Zero) THEN "-inf" ELSE "nan",
          value |-> Zero]

\* the ":.2f" format of a percentage
FmtPct(x) == IF x.kind = "num" THEN Num(Fmt2(x.value)) ELSE x

\* the dict appended to report for one position and its price
Row(data, current_price) ==
    LET shares        == data.shares
        cost_basis    == data.purchase_price
        investment    == RMul(shares, cost_basis)
        current_value == RMul(shares, current_price)
        gain_loss     == RSub(current_value, investment)
    IN  [Symbol       |-> data.symbol,
         Shares       |-> Fmt2(shares),
         AvgCost      |-> Fmt2(cost_basis),
         CurrentPrice |-> Fmt2(current_price),
         Invested     |-> Fmt2(investment),
         CurrentValue |-> Fmt2(current_value),
         GainLoss     |-> Fmt2(gain_loss),
         GainLossPct  |-> FmtPct(GainLossPct(gain_loss, investment))]

\* the division of line 371 raises ZeroDivisionError: the operands are
\* Python floats (Alpha Vantage backend) and the investment is zero
RowDivisionFaults(data) ==
    use_alpha_vantage /\ RMul(data.shares, data.purchase_price) = Zero

\* total_gain_loss_pct of the summary
TotalGainLossPct(investment, current_value) ==
    IF investment # Zero
    THEN RMul(RDiv(RSub(current_value, investment), investment), R(100))
    ELSE Zero

\* portfolio_summary on an empty portfolio prints and returns
summary_empty ==
    /\ pc = "menu"
    /\ portfolio = <<>>
    /\ last' = Call("portfolio_summary", "", "empty", "none")
    /\ ClearSummary
    /\ UNCHANGED <<pc, current_user_id, portfolio, use_alpha_vantage, db, ops, lots, ever>>

\* portfolio_summary up to the loop over the positions
summary_begin ==
    /\ pc = "menu"
    /\ portfolio # <<>>
    /\ pc' = "summary"
    /\ i' = 1
    /\ report' = <<>>
    /\ total_investment' = Zero
    /\ total_current_value' = Zero
    /\ total_gain_loss_pct' = None
    /\ quotes' = <<>>
    /\ last' = Call("portfolio_summary", "", "running", "none")
    /\ UNCHANGED <<current_user_id, portfolio, use_alpha_vantage, db, ops, lots, ever>>

\* summary_skip with break for continue: a failed quote ends the loop
summary_skip_breaks ==
    /\ pc = "summary"
    /\ i <= Len(portfolio)
    /\ None \in GetCurrentPriceResults
    /\ quotes' = Append(quotes, None)
    /\ i' = Len(portfolio) + 1
    /\ UNCHANGED <<pc, report, total_investment, total_current_value,
                   total_gain_loss_pct, last>>
    /\ UNCHANGED <<current_user_id, portfolio, use_alpha_vantage, db, ops,
                   lots, ever>>

\* one iteration of the loop: the quote failed, the position is skipped
summary_skip ==
    /\ pc = "summary"
    /\ i <= Len(portfolio)
    /\ None \in GetCurrentPriceResults
    /\ quotes' = Append(quotes, None)
    /\ i' = i + 1
    /\ UNCHANGED <<pc, report, total_investment, total_current_value,
                   total_gain_loss_pct, last>>
    /\ UNCHANGED <<current_user_id, portfolio, use_alpha_vantage, db, ops,
                   lots, ever>>

\* one iteration of the loop: a price came back, the row is appended
summary_row(current_price) ==
    /\ pc = "summary"
    /\ i <= Len(portfolio)
    /\ current_price \in GetCurrentPriceResults \ {None}
    /\ ~RowDivisionFaults(portfolio[i])
    /\ quotes' = Append(quotes, current_price)
    /\ total_investment' =
          RAdd(total_investment,
               RMul(portfolio[i].shares, portfolio[i].purchase_price))
    /\ total_current_value' =
          RAdd(total_current_value,
               RMul(portfolio[i].shares, current_price))
    /\ report' = Append(report, Row(portfolio[i], current_price))
    /\ i' = i + 1
    /\ UNCHANGED <<pc, total_gain_loss_pct, last>>
    /\ UNCHANGED <<current_user_id, portfolio, use_alpha_vantage, db, ops,
                   lots, ever>>

\* one iteration of the loop: a price came back and the percentage of the
\* row divides by zero; nothing catches the ZeroDivisionError
summary_fault(current_price) ==
    /\ pc = "summary"
    /\ i <= Len(portfolio)
    /\ current_price \in GetCurrentPriceResults \ {None}
    /\ RowDivisionFaults(portfolio[i])
    /\ quotes' = Append(quotes, current_price)
    /\ pc' = "crashed"
    /\ last' = Call("portfolio_summary", portfolio[i].symbol,
                    "ZeroDivisionError", "none")
    /\ UNCHANGED <<i, report, total_investment, total_current_value,
                   total_gain_loss_pct>>
    /\ UNCHANGED <<current_user_id, portfolio, use_alpha_vantage, db, ops,
                   lots, ever>>

\* portfolio_summary after the loop: the totals are computed and printed
summary_end ==
    /\ pc = "summary"
    /\ i > Len(portfolio)
    /\ total_gain_loss_pct' =
          TotalGainLossPct(total_investment, total_current_value)
    /\ pc' = "menu"
    /\ last' = Call("portfolio_summary", "", "printed", "none")
    /\ UNCHANGED <<i, report, total_investment, total_current_value,
                   quotes>>
    /\ UNCHANGED <<current_user_id, portfolio, use_alpha_vantage, db, ops,
                   lots, ever>>

portfolio_summary ==
    \/ summary_empty
    \/ summary_begin
    \/ summary_skip
    \/ \E current_price \in QuoteResults : summary_row(current_price)
    \/ \E current_price \in QuoteResults : summary_fault(current_price)
    \/ summary_end

----------------------------------------------------------------------------
(* The program *)

\* one run of main(): the session and its ledger operations
Next ==
    \/ \E user_id \in Users : login(user_id)
    \/ quit
    \/ logout
    \/ \E symbol_in \in SymbolInputs, shares_in \in ShareInputs,
          price_in \in PriceInputs, date_in \in DateInputs :
          add_stock(symbol_in, shares_in, price_in, date_in)
    \/ \E symbol_in \in SymbolInputs, shares \in CountInputs :
          remove_stock(symbol_in, shares)

Spec == Init /\ [][Next]_vars

\* the valuation of the portfolios a session can hold
ReportShares == {R(-1), R(1), R(2)}
ReportCosts  == {Zero, R(2), <<4, 3>>}

ReportPortfolios ==
    {<<>>}
    \cup {<<Position(a, s, c)>> :
            a \in Symbols, s \in ReportShares, c \in ReportCosts}
    \cup {<<Position(a, s, c), Position(b, t, d)>> :
            a \in {"AAPL"}, b \in {"MSFT"},
            s \in ReportShares, c \in ReportCosts,
            t \in ReportShares, d \in ReportCosts}
    \cup {<<Position(b, t, d), Position(a, s, c)>> :
            a \in {"AAPL"}, b \in {"MSFT"},
            s \in ReportShares, c \in ReportCosts,
            t \in ReportShares, d \in ReportCosts}

InitReport ==
    /\ pc = "menu"
    /\ current_user_id \in Users
    /\ portfolio \in ReportPortfolios
    /\ use_alpha_vantage = FALSE
    /\ db = [u \in Users |-> IF u = current_user_id THEN Rows(portfolio)
                             ELSE {}]
    /\ i = 0
    /\ report = <<>>
    /\ total_investment = Zero
    /\ total_current_value = Zero
    /\ total_gain_loss_pct = None
    /\ quotes = <<>>
    /\ ops = 0
    /\ last = NoCall
    /\ lots = NoLots
    /\ ever = [u \in Users |-> EverBought(portfolio)]

NextReport ==
    \/ toggle_api
    \/ portfolio_summary

SpecReport == InitReport /\ [][NextReport]_vars

----------------------------------------------------------------------------
(* Properties *)

Positive(x) == RLt(Zero, x)
NonNegative(x) == ~RLt(x, Zero)

\* the positions of a portfolio as the ledger store would hold them exactly
Exact(p) ==
    {[symbol         |-> p[k].symbol,
      shares         |-> p[k].shares,
      purchase_price |-> p[k].purchase_price,
      purchase_date  |-> SqlDate(p[k].purchase_date)] : k \in 1..Len(p)}

RECURSIVE SumShares(_)
SumShares(buys) ==
    IF buys = <<>> THEN Zero
    ELSE RAdd(SumShares(Tail(buys)), Head(buys)[1])

RECURSIVE SumCost(_)
SumCost(buys) ==
    IF buys = <<>> THEN Zero
    ELSE RAdd(SumCost(Tail(buys)), RMul(Head(buys)[1], Head(buys)[2]))

SuccessfulBuyOf(symbol) ==
    /\ last.op = "add_stock"
    /\ last.outcome \in {"added", "updated"}
    /\ last.symbol = symbol

\* C1: every position present in the in-memory portfolio has shares > 0.
C1_SharesPositive ==
    \A k \in 1..Len(portfolio) : Positive(portfolio[k].shares)

\* C2: a first buy (s, p) of a symbol gives shares = s and averageCost = p;
\* two buys (s1, p1), (s2, p2) of a symbol not held before, with positive
\* shares and non-negative prices, give shares = s1 + s2 and
\* averageCost = (s1*p1 + s2*p2) / (s1 + s2), and the two buys applied in
\* the opposite order give the same shares and averageCost.
C2_MergeBuys ==
    \A k \in 1..Len(portfolio) :
        LET pos  == portfolio[k]
            buys == lots[pos.symbol].buys
            b1   == buys[1]
            b2   == buys[2]
            swap == Merge(Insert(<<>>, pos.symbol, b2[1], b2[2], ""),
                          pos.symbol, b1[1], b1[2], "")[1]
        IN  (/\ lots[pos.symbol].clean
             /\ \A n \in 1..Len(buys) :
                   Positive(buys[n][1]) /\ NonNegative(buys[n][2]))
            => /\ Len(buys) = 1 =>
                    pos.shares = b1[1] /\ pos.purchase_price = b1[2]
               /\ Len(buys) = 2 =>
                    /\ pos.shares = RAdd(b1[1], b2[1])
                    /\ pos.purchase_price =
                          RDiv(RAdd(RMul(b1[1], b1[2]), RMul(b2[1], b2[2])),
                               RAdd(b1[1], b2[1]))
                    /\ swap.shares = pos.shares
                    /\ swap.purchase_price = pos.purchase_price

C2_Witness ==
    \E k \in 1..Len(portfolio) :
        LET buys == lots[portfolio[k].symbol].buys
        IN  /\ lots[portfolio[k].symbol].clean
            /\ Len(buys) = 2
            /\ Positive(buys[1][1]) /\ Positive(buys[2][1])
            /\ buys[1][1] # buys[2][1]
            /\ buys[1][2] # buys[2][2]

\* C3 as claimed: after every successful add_stock the symbol has exactly
\* one position and its averageCost is the volume-weighted average of all
\* buys ever merged for the symbol, disposals between the buys included.
C3_AllBuysEver ==
    \A symbol \in Symbols :
        SuccessfulBuyOf(symbol) =>
            /\ Cardinality({k \in 1..Len(portfolio) :
                               portfolio[k].symbol = symbol}) = 1
            /\ RMul(Get(portfolio, symbol).purchase_price,
                    ever[current_user_id][symbol][2])
                  = ever[current_user_id][symbol][1]

\* C3 as amended: after every successful add_stock the symbol has exactly
\* one position, and while no disposal of the symbol has happened since the
\* position was created its shares are the sum and its averageCost the
\* volume-weighted average of the buys merged since that creation.
C3_BuysSinceCreation ==
    \A symbol \in Symbols :
        SuccessfulBuyOf(symbol) =>
            /\ Cardinality({k \in 1..Len(portfolio) :
                               portfolio[k].symbol = symbol}) = 1
            /\ lots[symbol].clean =>
                  /\ Get(portfolio, symbol).shares =
                        SumShares(lots[symbol].buys)
                  /\ RMul(Get(portfolio, symbol).purchase_price,
                          SumShares(lots[symbol].buys))
                        = SumCost(lots[symbol].buys)

C3_Witness ==
    \E symbol \in Symbols :
        /\ SuccessfulBuyOf(symbol)
        /\ lots[symbol].clean
        /\ Len(lots[symbol].buys) = 2
        /\ Get(portfolio, symbol).purchase_price # lots[symbol].buys[1][2]
        /\ Get(portfolio, symbol).purchase_price # lots[symbol].buys[2][2]

\* the inputs C4 calls invalid
InvalidInput(symbol_in, shares_in, price_in, date_in) ==
    \/ ~FloatParses(shares_in)
    \/ ~FloatParses(price_in)
    \/ FloatParses(shares_in) /\ ~Positive(Float(shares_in))
    \/ ~DateParses(date_in)
    \/ Upper(symbol_in) = ""

\* C4: add_stock with invalid input (non-numeric shares or price, shares
\* zero or negative, a malformed date, an empty symbol) leaves the
\* in-memory portfolio unchanged and triggers no save.
C4_InvalidInputRejected ==
    [][\A symbol_in \in SymbolInputs, shares_in \in ShareInputs,
          price_in \in PriceInputs, date_in \in DateInputs :
          (/\ InvalidInput(symbol_in, shares_in, price_in, date_in)
           /\ add_stock(symbol_in, shares_in, price_in, date_in))
          => /\ portfolio' = portfolio
             /\ db' = db
             /\ last'.saved = "none"]_vars

\* C5: remove_stock of a held symbol removes the position when the count
\* is omitted or is >= the shares held; otherwise the position stays, its
\* shares are reduced by exactly the count and its averageCost is unchanged.
C5_Disposal ==
    [][\A symbol_in \in SymbolInputs, shares \in CountInputs :
          (/\ remove_stock(symbol_in, shares)
           /\ Contains(portfolio, Upper(symbol_in)))
          => LET symbol == Upper(symbol_in)
                 held   == Get(portfolio, symbol)
             IN  IF shares = None \/ RGe(shares, held.shares)
                 THEN ~Contains(portfolio', symbol)
                 ELSE /\ Contains(portfolio', symbol)
                      /\ Get(portfolio', symbol).shares =
                            RSub(held.shares, shares)
                      /\ Get(portfolio', symbol).purchase_price =
                            held.purchase_price]_vars

C5_Witness ==
    /\ last.op = "remove_stock"
    /\ last.outcome = "removed"
    /\ Contains(portfolio, last.symbol)
    /\ Positive(Get(portfolio, last.symbol).shares)
    /\ Len(portfolio) = 2

\* C6: remove_stock of a symbol that, after upper-casing, has no position
\* reports that it is not in the portfolio, changes no position and
\* triggers no save.
C6_NotHeld ==
    [][\A symbol_in \in SymbolInputs, shares \in CountInputs :
          (/\ remove_stock(symbol_in, shares)
           /\ ~Contains(portfolio, Upper(symbol_in)))
          => /\ portfolio' = portfolio
             /\ db' = db
             /\ last'.outcome = "not in portfolio"
             /\ last'.saved = "none"]_vars

C6_Witness ==
    /\ last.op = "remove_stock"
    /\ last.outcome = "not in portfolio"
    /\ portfolio # <<>>
    /\ db[current_user_id] # Rows(portfolio)

\* C7: purchase_date is set when the first buy of a symbol creates the
\* position, to the date passed; a later merging buy or a partial disposal
\* leaves it unchanged, whatever date is passed.
C7_AcquiredOn ==
    [][/\ \A k \in 1..Len(portfolio) :
             Contains(portfolio', portfolio[k].symbol) =>
                Get(portfolio', portfolio[k].symbol).purchase_date =
                   portfolio[k].purchase_date
       /\ (last'.op = "add_stock" /\ last'.outcome = "added") =>
             /\ ~Contains(portfolio, last'.symbol)
             /\ Get(portfolio', last'.symbol).purchase_date = last'.date
      ]_vars

C7_Witness ==
    /\ last.op = "add_stock"
    /\ last.outcome = "updated"
    /\ Contains(portfolio, last.symbol)
    /\ Get(portfolio, last.symbol).purchase_date # last.date

\* C10: an add_stock or remove_stock that changes the in-memory portfolio
\* saves the whole portfolio for the current user in the same operation;
\* when the save succeeds the durable portfolio equals the in-memory one,
\* and when it fails the durable portfolio keeps its rows and the
\* in-memory change stays.
C10_SaveAfterMutation ==
    [][(last'.op \in {"add_stock", "remove_stock"} /\ portfolio' # portfolio)
          => /\ last'.saved \in {"ok", "failed"}
             /\ last'.saved = "ok" =>
                   /\ db'[current_user_id] = Exact(portfolio')
                   /\ \A u \in Users \ {current_user_id} : db'[u] = db[u]
             /\ last'.saved = "failed" => db' = db]_vars

\* the positions fetched so far whose quote succeeded, in portfolio order
RECURSIVE Priced(_)
Priced(n) ==
    IF n = 0 THEN <<>>
    ELSE IF quotes[n] = None THEN Priced(n - 1)
         ELSE Append(Priced(n - 1), n)

RECURSIVE SumInvested(_)
SumInvested(ks) ==
    IF ks = <<>> THEN Zero
    ELSE RAdd(SumInvested(Tail(ks)),
              RMul(portfolio[Head(ks)].shares,
                   portfolio[Head(ks)].purchase_price))

RECURSIVE SumCurrentValue(_)
SumCurrentValue(ks) ==
    IF ks = <<>> THEN Zero
    ELSE RAdd(SumCurrentValue(Tail(ks)),
              RMul(portfolio[Head(ks)].shares, quotes[Head(ks)]))

C9_NoDivisionByZero ==
    /\ ~(last.op = "portfolio_summary" /\ last.outcome = "ZeroDivisionError")
    /\ (last.op = "portfolio_summary" /\ last.outcome = "printed"
        /\ total_investment = Zero) => total_gain_loss_pct = Zero

====
